---- MODULE Spec2Model ----
(***************************************************************************)
(* State-machine model of the asynchronous utilities of the notes:         *)
(*   PromiseQueue and PromisePool (22_Promises.js), EventQueue             *)
(*   (21_Events.js).                                                       *)
(*                                                                         *)
(* JavaScript runs one job at a time.  A synchronous stretch of code (a    *)
(* call up to its first await, or a continuation up to its next await) is  *)
(* one action.  Continuations of awaits are jobs of the microtask queue,   *)
(* which runs them first-in first-out; calls made by other code (enqueue,  *)
(* add, addEvent, the settling of an operation's promise) can come from    *)
(* jobs queued earlier and so may be taken between any two continuations.  *)
(* Where a call hands control to the caller's code before it has finished  *)
(* its own updates (a promiseFunc that throws, func of throttle and once,   *)
(* a command's undo), the call is split there: the caller's code may call  *)
(* the component again before it returns or throws.                        *)
(***************************************************************************)
EXTENDS Integers, Sequences, FiniteSets, TLC

\* ---------------------------------------------------------------- bounds
NumTasks == 3
MaxConcurrent == 2
NumEvents == 3
MaxOnceCalls == 5
MaxRetries == 4
MaxDebounceCalls == 4
MaxThrottleCalls == 6
MaxCommands == 5
MaxUndoCalls == 4
MaxPoolObjects == 4
NumIds == 12
MaxInFlight == 2

Tasks == 1..NumTasks
Events == 1..NumEvents
Commands == 1..MaxCommands

\* Arguments passed to the debounced function.
DebounceArgs == {"a", "b"}

\* What an operation (promiseFunc, handleEvent) does when it is invoked:
\* return a promise that fulfils, return a promise that rejects, or throw
\* before returning.
Behaviours == {"ok", "reject", "throw"}

\* Arguments given to new PromisePool(maxConcurrent).
ConcurrencyValues == (0 - 1)..MaxConcurrent

VARIABLES
    behav,          \* task -> the promiseFunc submitted ("none" before)
    owner,          \* task -> "none" | "queue" | "pool"
    op,             \* task -> state of the promise of promiseFunc()
    handle,         \* task -> promise returned by enqueue / add
    settles,        \* task -> number of resolve/reject calls on the handle
    invocations,    \* task -> number of calls of promiseFunc
    submitOrder,    \* tasks in the order of their enqueue / add calls
    startOrder,     \* tasks in the order their promiseFunc was called
    microtasks,     \* pending continuations, FIFO
    pqQueue,        \* PromiseQueue.queue
    processing,     \* PromiseQueue.processing
    constructed,    \* a PromisePool object exists
    maxConcurrent,  \* PromisePool.maxConcurrent
    running,        \* PromisePool.running
    poolQueue,      \* PromisePool.queue (resolvers of parked add calls)
    sinceIdle,      \* add calls made since the pool was last idle, in order
    executing,      \* pool tasks whose promiseFunc is executing, innermost last
    evBehav,        \* event -> what handleEvent does for it ("none" before)
    evOp,           \* event -> state of the promise of handleEvent(event)
    evQueue,        \* EventQueue.queue
    evProcessing,   \* EventQueue.processing
    evHandled,      \* events in the order handleEvent was called for them
    evLoop,         \* the processQueue call of EventQueue that ran last:
                    \*   "none" (returned) | "running" (in handleEvent) |
                    \*   "awaiting" | "failed"
    evExecuting,    \* events whose handleEvent call is executing, innermost last
    evMicrotasks,   \* pending continuations of EventQueue.processQueue
    evDirect,       \* processQueue of EventQueue was called other than by addEvent
    onceHasRun,     \* once: hasRun
    onceResult,     \* once: result (0 is undefined, k the value returned by
                    \*   the k-th invocation of fn)
    onceStack,      \* once: invocations of fn that are executing, innermost last
    onceFnCalls,    \* once: number of invocations of fn
    onceCalls,      \* once: number of calls of the wrapper
    onceReturns,    \* once: values returned by the wrapper calls, in order
    rtRetries,      \* retryOperation: retries
    rtI,            \* retryOperation: loop variable i
    rtPc,           \* retryOperation: "idle" | "awaitOp" | "awaitDelay" |
                    \*   "fulfilled" | "rejected"
    rtOutcomes,     \* retryOperation: what each operation() call did, in order
    rtDelays,       \* retryOperation: number of delay timers started
    rtResult,       \* retryOperation: attempt whose value / error settled
                    \*   the returned promise (0: undefined)
    dbTimeoutId,    \* debounce: timeoutId (0 is undefined)
    dbTimers,       \* debounce: pending timers, [id, args]
    dbCalls,        \* debounce: number of calls of the debounced function
    dbLastArgs,     \* debounce: arguments of the most recent call
    dbInvoked,      \* debounce: invocations of func, [args, call], in order
    dbBursts,       \* debounce: number of bursts of calls begun
    thInThrottle,   \* throttle: inThrottle (undefined counts as false)
    thTimers,       \* throttle: number of pending timers
    thCalls,        \* throttle: number of calls of the throttled function
    thInvoked,      \* throttle: the calls that invoked func, in order
    thExpiredSince, \* throttle: a timer fired since func was last invoked
    thExecuting,    \* throttle: number of invocations of func that are executing
    cmCommands,     \* CommandManager.commands
    cmCurrent,      \* CommandManager.current
    cmExecuted,     \* command -> number of calls of its execute()
    cmUndone,       \* command -> number of calls of its undo()
    cmUndoing,      \* number of undo() calls of commands that are executing
    cmUndoCalls,    \* number of manager.undo() calls that reached a command
    opPool,         \* ObjectPool.pool
    opInUse,        \* ObjectPool.inUse
    opCreated,      \* ObjectPool: number of objects made by createNew()
    opReturned,     \* ObjectPool: object returned by the last acquire (0: none)
    cpPool,         \* ConnectionPool.#pool: id -> connection held (0: no entry)
    cpCreatedFor,   \* id -> number of #createConnection() calls made for it
    cpInFlight,     \* getConnection calls suspended at the await, oldest first
    cpReturned,     \* id -> connections that getConnection(id) calls returned
    cpRequested,    \* number of different ids asked for so far
    cpLastCall      \* id and outcome of the last getConnection call

taskVars == <<behav, owner, op, handle, settles, invocations, submitOrder,
              startOrder, microtasks>>
pqVars == <<pqQueue, processing>>
poolVars == <<constructed, maxConcurrent, running, poolQueue, sinceIdle,
              executing>>
evVars == <<evBehav, evOp, evQueue, evProcessing, evHandled, evLoop,
            evExecuting, evMicrotasks, evDirect>>
onceVars == <<onceHasRun, onceResult, onceStack, onceFnCalls, onceCalls,
              onceReturns>>
schedVars == <<taskVars, pqVars, poolVars>>
retryVars == <<rtRetries, rtI, rtPc, rtOutcomes, rtDelays, rtResult>>
debVars == <<dbTimeoutId, dbTimers, dbCalls, dbLastArgs, dbInvoked, dbBursts>>
thrVars == <<thInThrottle, thTimers, thCalls, thInvoked, thExpiredSince,
             thExecuting>>
cmdVars == <<cmCommands, cmCurrent, cmExecuted, cmUndone, cmUndoing,
             cmUndoCalls>>
objVars == <<opPool, opInUse, opCreated, opReturned>>
utilVars == <<onceVars, retryVars, debVars, thrVars, cmdVars>>
connVars == <<cpPool, cpCreatedFor, cpInFlight, cpReturned, cpRequested, cpLastCall>>
vars == <<schedVars, evVars, utilVars, objVars, connVars>>

\* Variables outside the PromiseQueue / PromisePool part.
schedOther == <<evVars, onceVars, retryVars, debVars, thrVars, cmdVars, objVars, connVars>>
\* Variables outside the EventQueue part.
evOther == <<schedVars, onceVars, retryVars, debVars, thrVars, cmdVars, objVars, connVars>>
\* Variables outside the once part.
onceOther == <<schedVars, evVars, retryVars, debVars, thrVars, cmdVars, objVars, connVars>>
\* Variables outside the retryOperation part.
retryOther == <<schedVars, evVars, onceVars, debVars, thrVars, cmdVars, objVars, connVars>>
\* Variables outside the debounce part.
debOther == <<schedVars, evVars, onceVars, retryVars, thrVars, cmdVars, objVars, connVars>>
\* Variables outside the throttle part.
thrOther == <<schedVars, evVars, onceVars, retryVars, debVars, cmdVars, objVars, connVars>>
\* Variables outside the CommandManager part.
cmdOther == <<schedVars, evVars, onceVars, retryVars, debVars, thrVars, objVars, connVars>>
\* Variables outside the ObjectPool part.
objOther == <<schedVars, evVars, utilVars, connVars>>
\* Variables outside the ConnectionPool part.
connOther == <<schedVars, evVars, utilVars, objVars>>

\* ------------------------------------------------------------- promises
Pending == [st |-> "pending", by |-> 0]

\* State of the promise an operation returns once it settles.
Outcome(b) == IF b = "ok" THEN "fulfilled" ELSE "rejected"

\* resolve(value) / reject(error) of task t's handle, the value or error
\* being the one produced by the operation of task src.  A promise keeps its
\* first settlement.
SettleHandle(h, t, kind, src) ==
    IF h[t].st = "pending"
    THEN [h EXCEPT ![t] = [st |-> kind, by |-> src]]
    ELSE h

Range(s) == {s[i] : i \in 1..Len(s)}

\* Tasks and events are numbered in the order they are submitted: the next
\* enqueue / add call is for task NextTask, the next addEvent for NextEvent.
NextTask == Len(submitOrder) + 1
NextEvent == Cardinality({e \in Events : evBehav[e] # "none"}) + 1

Init ==
    /\ behav = [t \in Tasks |-> "none"]
    /\ owner = [t \in Tasks |-> "none"]
    /\ op = [t \in Tasks |-> "idle"]
    /\ handle = [t \in Tasks |-> Pending]
    /\ settles = [t \in Tasks |-> 0]
    /\ invocations = [t \in Tasks |-> 0]
    /\ submitOrder = <<>>
    /\ startOrder = <<>>
    /\ microtasks = <<>>
    /\ pqQueue = <<>>
    /\ processing = FALSE
    /\ constructed = FALSE
    /\ maxConcurrent = 0
    /\ running = 0
    /\ poolQueue = <<>>
    /\ sinceIdle = <<>>
    /\ executing = <<>>
    /\ evBehav = [e \in Events |-> "none"]
    /\ evOp = [e \in Events |-> "idle"]
    /\ evQueue = <<>>
    /\ evProcessing = FALSE
    /\ evHandled = <<>>
    /\ evLoop = "none"
    /\ evExecuting = <<>>
    /\ evMicrotasks = <<>>
    /\ evDirect = FALSE
    /\ onceHasRun = FALSE
    /\ onceResult = 0
    /\ onceStack = <<>>
    /\ onceFnCalls = 0
    /\ onceCalls = 0
    /\ onceReturns = <<>>
    /\ rtRetries = 0
    /\ rtI = 0
    /\ rtPc = "idle"
    /\ rtOutcomes = <<>>
    /\ rtDelays = 0
    /\ rtResult = 0
    /\ dbTimeoutId = 0
    /\ dbTimers = {}
    /\ dbCalls = 0
    /\ dbLastArgs = "none"
    /\ dbInvoked = <<>>
    /\ dbBursts = 0
    /\ thInThrottle = FALSE
    /\ thTimers = 0
    /\ thCalls = 0
    /\ thInvoked = <<>>
    /\ thExpiredSince = FALSE
    /\ thExecuting = 0
    /\ cmCommands = <<>>
    /\ cmCurrent = 0 - 1
    /\ cmExecuted = [c \in Commands |-> 0]
    /\ cmUndone = [c \in Commands |-> 0]
    /\ cmUndoing = 0
    /\ cmUndoCalls = 0
    /\ opPool = <<>>
    /\ opInUse = {}
    /\ opCreated = 0
    /\ opReturned = 0
    /\ cpPool = [id \in 1..NumIds |-> 0]
    /\ cpCreatedFor = [id \in 1..NumIds |-> 0]
    /\ cpInFlight = <<>>
    /\ cpReturned = [id \in 1..NumIds |-> {}]
    /\ cpRequested = 0
    /\ cpLastCall = [id |-> 0, outcome |-> "none"]

\* --------------------------------------------------------- PromiseQueue
\* The part of the state processQueue works on.
PQState == [queue |-> pqQueue, processing |-> processing, op |-> op,
            handle |-> handle, settles |-> settles,
            invocations |-> invocations, startOrder |-> startOrder]

\* this.queue.pop() in place of shift(): the newest item is taken.
ShiftFromEnd(q) == [item |-> q[Len(q)], rest |-> SubSeq(q, 1, Len(q) - 1)]

\* this.queue.shift(): the item taken and the queue left.
Shift(q) == [item |-> Head(q), rest |-> Tail(q)]

\* processQueue's loop without `this.processing = false` after it.
RECURSIVE WhileQueueNoReset(_, _)
WhileQueueNoReset(s, bh) ==
    IF Len(s.queue) > 0
    THEN LET t == Shift(s.queue).item
             s1 == [s EXCEPT !.queue = Shift(s.queue).rest,
                             !.invocations[t] = @ + 1,
                             !.startOrder = Append(@, t)]
         IN  IF bh[t] = "throw"
             THEN WhileQueueNoReset([s1 EXCEPT
                                !.op[t] = "threw",
                                !.handle = SettleHandle(@, t, "rejected", t),
                                !.settles[t] = @ + 1], bh)
             ELSE [s1 EXCEPT !.op[t] = "pending"]
    ELSE s

\* The while loop of processQueue, from its condition up to the next await
\* (or to the end of the function).  bh gives each task's promiseFunc.
RECURSIVE WhileQueue(_, _)
WhileQueue(s, bh) ==
    IF Len(s.queue) > 0
    THEN LET t == Shift(s.queue).item
             s1 == [s EXCEPT !.queue = Shift(s.queue).rest,
                             !.invocations[t] = @ + 1,
                             !.startOrder = Append(@, t)]
         IN  IF bh[t] = "throw"
             THEN WhileQueue([s1 EXCEPT
                                !.op[t] = "threw",
                                !.handle = SettleHandle(@, t, "rejected", t),
                                !.settles[t] = @ + 1], bh)
             ELSE [s1 EXCEPT !.op[t] = "pending"]
    ELSE [s EXCEPT !.processing = FALSE]

\* processQueue without `if (this.processing) return`.
ProcessQueueNoGuard(s, bh) == WhileQueue([s EXCEPT !.processing = TRUE], bh)

\* processQueue() called from enqueue.
ProcessQueue(s, bh) ==
    IF s.processing THEN s
    ELSE WhileQueue([s EXCEPT !.processing = TRUE], bh)

\* processQueue's continuation with a retry: a task whose operation
\* rejected is put back at the head of the queue once.
AfterAwaitRetry(s, t, bh) ==
    IF s.op[t] = "rejected" /\ s.invocations[t] < 2
    THEN WhileQueue([s EXCEPT !.queue = <<t>> \o @], bh)
    ELSE WhileQueue([s EXCEPT !.handle = SettleHandle(@, t, s.op[t], t),
                              !.settles[t] = @ + 1], bh)

\* processQueue's continuation without its catch branch: the handle is
\* resolved whatever the operation did.
AfterAwaitNoCatch(s, t, bh) ==
    LET s1 == [s EXCEPT !.handle = SettleHandle(@, t, "fulfilled", t),
                        !.settles[t] = @ + 1]
    IN  WhileQueue(s1, bh)

\* The continuation of `await promiseFunc()` for task t: resolve or reject,
\* then go round the loop.
AfterAwait(s, t, bh) ==
    LET s1 == [s EXCEPT !.handle = SettleHandle(@, t, s.op[t], t),
                        !.settles[t] = @ + 1]
    IN  WhileQueue(s1, bh)

SetPQ(s) ==
    /\ pqQueue' = s.queue
    /\ processing' = s.processing
    /\ op' = s.op
    /\ handle' = s.handle
    /\ settles' = s.settles
    /\ invocations' = s.invocations
    /\ startOrder' = s.startOrder

\* queue.enqueue(promiseFunc), promiseFunc behaving as b.
Enqueue(t, b) ==
    /\ t = NextTask
    /\ behav' = [behav EXCEPT ![t] = b]
    /\ owner' = [owner EXCEPT ![t] = "queue"]
    /\ submitOrder' = Append(submitOrder, t)
    /\ SetPQ(ProcessQueue([PQState EXCEPT !.queue = Append(@, t)], behav'))
    /\ UNCHANGED <<microtasks, poolVars, schedOther>>

\* The microtask that resumes processQueue after `await promiseFunc()`.
ContinueProcessQueue ==
    /\ executing = <<>>
    /\ Len(microtasks) > 0
    /\ Head(microtasks)[1] = "processQueue"
    /\ microtasks' = Tail(microtasks)
    /\ SetPQ(AfterAwait(PQState, Head(microtasks)[2], behav))
    /\ UNCHANGED <<behav, owner, submitOrder, poolVars, schedOther>>

\* ---------------------------------------------------------- PromisePool
\* The part of the state add works on.
PoolState == [running |-> running, queue |-> poolQueue,
              stack |-> executing,
              microtasks |-> microtasks, op |-> op, handle |-> handle,
              settles |-> settles, invocations |-> invocations,
              startOrder |-> startOrder]

\* No add call is between its entry and the end of its finally block.
PoolIdle ==
    /\ running = 0
    /\ poolQueue = <<>>
    /\ \A i \in 1..Len(microtasks) : microtasks[i][1] = "processQueue"

\* `>` in place of `>=` in the test of add's first line.
PoolFullStrict(r, m) == r > m

\* The test of add's first line.
PoolFull(r, m) == r >= m

\* add with the release written after the await instead of in a finally
\* block: a failed operation leaves `running` and the waiters untouched.
FinallyOnSuccessOnly(s, t, res) ==
    LET s1 == [s EXCEPT !.handle = SettleHandle(@, t,
                                     IF res = "fulfilled" THEN "fulfilled"
                                     ELSE "rejected", t),
                        !.settles[t] = @ + 1]
        s2 == [s1 EXCEPT !.running = @ - 1]
    IN  IF res # "fulfilled" THEN s1
        ELSE IF Len(s2.queue) > 0
        THEN [s2 EXCEPT !.queue = Tail(s2.queue),
                        !.microtasks = Append(@, <<"resume", Head(s2.queue)>>)]
        ELSE s2

\* add's finally calling the head resolver without removing it from the
\* wait queue (`this.queue[0]()` in place of `this.queue.shift()()`).
FinallyNoShift(s, t, res) ==
    LET s1 == [s EXCEPT !.running = @ - 1,
                        !.handle = SettleHandle(@, t,
                                     IF res = "fulfilled" THEN "fulfilled"
                                     ELSE "rejected", t),
                        !.settles[t] = @ + 1]
    IN  IF Len(s1.queue) > 0
        THEN [s1 EXCEPT !.microtasks = Append(@, <<"resume", Head(s1.queue)>>)]
        ELSE s1

\* The finally block of add, and the settling of add's own promise, for the
\* add call of task t whose operation ended in state res.
Finally(s, t, res) ==
    LET s1 == [s EXCEPT !.running = @ - 1,
                        !.handle = SettleHandle(@, t,
                                     IF res = "fulfilled" THEN "fulfilled"
                                     ELSE "rejected", t),
                        !.settles[t] = @ + 1]
    IN  IF Len(s1.queue) > 0
        THEN [s1 EXCEPT !.queue = Tail(s1.queue),
                        !.microtasks = Append(@, <<"resume", Head(s1.queue)>>)]
        ELSE s1

\* add from `this.running++` to the call of promiseFunc: a promiseFunc that
\* returns a promise leaves add at its await; one that will throw is
\* executing, and may call the pool, until it does.
Admit(s, t, bh) ==
    LET s1 == [s EXCEPT !.running = @ + 1,
                        !.invocations[t] = @ + 1,
                        !.startOrder = Append(@, t)]
    IN  IF bh[t] = "throw"
        THEN [s1 EXCEPT !.op[t] = "executing", !.stack = Append(@, t)]
        ELSE [s1 EXCEPT !.op[t] = "pending"]

SetPool(s) ==
    /\ running' = s.running
    /\ poolQueue' = s.queue
    /\ executing' = s.stack
    /\ microtasks' = s.microtasks
    /\ op' = s.op
    /\ handle' = s.handle
    /\ settles' = s.settles
    /\ invocations' = s.invocations
    /\ startOrder' = s.startOrder

\* new PromisePool(n)
NewPromisePool(n) ==
    /\ ~constructed
    /\ constructed' = TRUE
    /\ maxConcurrent' = n
    /\ running' = 0
    /\ poolQueue' = <<>>
    /\ sinceIdle' = <<>>
    /\ UNCHANGED <<executing, taskVars, pqVars, schedOther>>

\* pool.add(promiseFunc), promiseFunc behaving as b; the call comes from
\* outside or from an executing promiseFunc.
Add(t, b) ==
    /\ constructed
    /\ t = NextTask
    /\ behav' = [behav EXCEPT ![t] = b]
    /\ owner' = [owner EXCEPT ![t] = "pool"]
    /\ submitOrder' = Append(submitOrder, t)
    /\ sinceIdle' = IF PoolIdle THEN <<t>> ELSE Append(sinceIdle, t)
    /\ IF PoolFull(running, maxConcurrent)
       THEN SetPool([PoolState EXCEPT !.queue = Append(@, t)])
       ELSE SetPool(Admit(PoolState, t, behav'))
    /\ UNCHANGED <<constructed, maxConcurrent, pqVars, schedOther>>

\* The microtask that resumes a parked add call after its resolver was called.
ResumeAdd ==
    /\ executing = <<>>
    /\ Len(microtasks) > 0
    /\ Head(microtasks)[1] = "resume"
    /\ SetPool(Admit([PoolState EXCEPT !.microtasks = Tail(@)],
                     Head(microtasks)[2], behav))
    /\ UNCHANGED <<behav, owner, submitOrder, constructed, maxConcurrent,
                   sinceIdle, pqVars, schedOther>>

\* The microtask that resumes add after `await promiseFunc()`.
FinishAdd ==
    /\ executing = <<>>
    /\ Len(microtasks) > 0
    /\ Head(microtasks)[1] = "finish"
    /\ LET t == Head(microtasks)[2]
       IN  SetPool(Finally([PoolState EXCEPT !.microtasks = Tail(@)],
                           t, op[t]))
    /\ UNCHANGED <<behav, owner, submitOrder, constructed, maxConcurrent,
                   sinceIdle, pqVars, schedOther>>

\* The innermost executing promiseFunc throws: its add call runs the finally
\* block and rejects.
PromiseFuncThrows ==
    /\ Len(executing) > 0
    /\ LET t == executing[Len(executing)]
       IN  SetPool(Finally([PoolState EXCEPT
                              !.stack = SubSeq(@, 1, Len(@) - 1),
                              !.op[t] = "threw"], t, "threw"))
    /\ UNCHANGED <<behav, owner, submitOrder, constructed, maxConcurrent,
                   sinceIdle, pqVars, schedOther>>

\* ------------------------------------------------------------ operations
\* The promise returned by task t's promiseFunc settles; the continuation of
\* the await on it is queued.
OpSettle(t) ==
    /\ op[t] = "pending"
    /\ op' = [op EXCEPT ![t] = Outcome(behav[t])]
    /\ microtasks' = Append(microtasks,
                        IF owner[t] = "queue" THEN <<"processQueue", t>>
                        ELSE <<"finish", t>>)
    /\ UNCHANGED <<behav, owner, handle, settles, invocations, submitOrder,
                   startOrder, pqVars, poolVars, schedOther>>

Next ==
    \/ \E t \in Tasks, b \in Behaviours : Enqueue(t, b)
    \/ ContinueProcessQueue
    \/ \E n \in ConcurrencyValues : NewPromisePool(n)
    \/ \E t \in Tasks, b \in Behaviours : Add(t, b)
    \/ ResumeAdd
    \/ FinishAdd
    \/ PromiseFuncThrows
    \/ \E t \in Tasks : OpSettle(t)

Spec == Init /\ [][Next]_vars

\* Every started operation eventually completes, an executing promiseFunc
\* comes to its end, and the microtask queue is always run to exhaustion.
FairSpec ==
    /\ Spec
    /\ WF_vars(PromiseFuncThrows)
    /\ WF_vars(ContinueProcessQueue)
    /\ WF_vars(ResumeAdd)
    /\ WF_vars(FinishAdd)
    /\ \A t \in Tasks : WF_vars(OpSettle(t))

\* ----------------------------------------------------------- EventQueue
\* The part of the state EventQueue.processQueue works on.
EvState == [queue |-> evQueue, processing |-> evProcessing, op |-> evOp,
            handled |-> evHandled, loop |-> evLoop, stack |-> evExecuting]

\* EventQueue.processQueue taking the newest event (pop) instead of the
\* oldest (shift).
EvWhileLifo(s) ==
    IF Len(s.queue) > 0
    THEN LET e == s.queue[Len(s.queue)]
         IN  [s EXCEPT !.queue = SubSeq(s.queue, 1, Len(s.queue) - 1),
                       !.handled = Append(@, e),
                       !.op[e] = "executing",
                       !.stack = Append(@, e),
                       !.loop = "running"]
    ELSE [s EXCEPT !.processing = FALSE, !.loop = "none"]

\* The while loop of EventQueue.processQueue, from its condition up to the
\* call of handleEvent or to the end of the function.
EvWhile(s) ==
    IF Len(s.queue) > 0
    THEN LET e == Head(s.queue)
         IN  [s EXCEPT !.queue = Tail(s.queue),
                       !.handled = Append(@, e),
                       !.op[e] = "executing",
                       !.stack = Append(@, e),
                       !.loop = "running"]
    ELSE [s EXCEPT !.processing = FALSE, !.loop = "none"]

\* processQueue() from its first line.
EvProcessQueue(s) == EvWhile([s EXCEPT !.processing = TRUE])

\* The continuation of `await this.handleEvent(event)` for event e.
EvAfterAwait(s, e) ==
    IF s.op[e] = "rejected"
    THEN [s EXCEPT !.loop = "failed"]
    ELSE EvWhile(s)

SetEv(s) ==
    /\ evQueue' = s.queue
    /\ evProcessing' = s.processing
    /\ evOp' = s.op
    /\ evHandled' = s.handled
    /\ evLoop' = s.loop
    /\ evExecuting' = s.stack

\* eventQueue.addEvent(event), handleEvent behaving as b for this event; the
\* call comes from outside or from an executing handleEvent.
AddEvent(e, b) ==
    /\ e = NextEvent
    /\ evBehav' = [evBehav EXCEPT ![e] = b]
    /\ LET s == [EvState EXCEPT !.queue = Append(@, e)]
       IN  IF ~s.processing
           THEN SetEv(EvProcessQueue(s))
           ELSE SetEv(s)
    /\ UNCHANGED <<evMicrotasks, evDirect, evOther>>

\* eventQueue.processQueue() called by other code than addEvent, from
\* outside or from an executing handleEvent.
EvDirectProcessQueue ==
    /\ evDirect' = TRUE
    /\ SetEv(EvProcessQueue(EvState))
    /\ UNCHANGED <<evBehav, evMicrotasks, evOther>>

\* The innermost executing handleEvent returns its promise: the processQueue
\* call that called it suspends at its await.
EvHandlerReturns ==
    /\ Len(evExecuting) > 0
    /\ LET e == evExecuting[Len(evExecuting)]
       IN  /\ evBehav[e] # "throw"
           /\ evOp' = [evOp EXCEPT ![e] = "pending"]
    /\ evLoop' = "awaiting"
    /\ evExecuting' = SubSeq(evExecuting, 1, Len(evExecuting) - 1)
    /\ UNCHANGED <<evBehav, evQueue, evProcessing, evHandled, evMicrotasks,
                   evDirect, evOther>>

\* The innermost executing handleEvent throws: the exception leaves the
\* processQueue call that called it.
EvHandlerThrows ==
    /\ Len(evExecuting) > 0
    /\ LET e == evExecuting[Len(evExecuting)]
       IN  /\ evBehav[e] = "throw"
           /\ evOp' = [evOp EXCEPT ![e] = "threw"]
    /\ evLoop' = "failed"
    /\ evExecuting' = SubSeq(evExecuting, 1, Len(evExecuting) - 1)
    /\ UNCHANGED <<evBehav, evQueue, evProcessing, evHandled, evMicrotasks,
                   evDirect, evOther>>

\* The promise returned by handleEvent(e) settles.
HandlerSettle(e) ==
    /\ evOp[e] = "pending"
    /\ evOp' = [evOp EXCEPT ![e] = Outcome(evBehav[e])]
    /\ evMicrotasks' = Append(evMicrotasks, e)
    /\ UNCHANGED <<evBehav, evQueue, evProcessing, evHandled, evLoop,
                   evExecuting, evDirect, evOther>>

\* The microtask that resumes EventQueue.processQueue after the await.
ContinueEvents ==
    /\ evExecuting = <<>>
    /\ Len(evMicrotasks) > 0
    /\ evMicrotasks' = Tail(evMicrotasks)
    /\ SetEv(EvAfterAwait(EvState, Head(evMicrotasks)))
    /\ UNCHANGED <<evBehav, evDirect, evOther>>

NextEvents ==
    \/ \E e \in Events, b \in Behaviours : AddEvent(e, b)
    \/ EvDirectProcessQueue
    \/ EvHandlerReturns
    \/ EvHandlerThrows
    \/ \E e \in Events : HandlerSettle(e)
    \/ ContinueEvents

SpecEvents == Init /\ [][NextEvents]_vars

\* Every handler call comes to its end, every promise of a handler settles
\* and microtasks are run.
FairSpecEvents ==
    /\ SpecEvents
    /\ WF_vars(EvHandlerReturns)
    /\ WF_vars(EvHandlerThrows)
    /\ WF_vars(ContinueEvents)
    /\ \A e \in Events : WF_vars(HandlerSettle(e))

\* ------------------------------------------------------------------ once
\* A call of the function returned by once(fn), from outside or from inside
\* an executing fn: either fn is entered, or the stored result is returned.
OnceCall ==
    /\ onceCalls < MaxOnceCalls
    /\ onceCalls' = onceCalls + 1
    /\ IF ~onceHasRun
       THEN /\ onceFnCalls' = onceFnCalls + 1
            /\ onceStack' = Append(onceStack, onceFnCalls + 1)
            /\ UNCHANGED onceReturns
       ELSE /\ onceReturns' = Append(onceReturns, onceResult)
            /\ UNCHANGED <<onceFnCalls, onceStack>>
    /\ UNCHANGED <<onceHasRun, onceResult, onceOther>>

\* The innermost executing fn returns: the wrapper stores its value, sets
\* hasRun and returns result.
OnceFnReturns ==
    /\ Len(onceStack) > 0
    /\ LET k == onceStack[Len(onceStack)]
       IN  /\ onceResult' = k
           /\ onceHasRun' = TRUE
           /\ onceReturns' = Append(onceReturns, k)
    /\ onceStack' = SubSeq(onceStack, 1, Len(onceStack) - 1)
    /\ UNCHANGED <<onceFnCalls, onceCalls, onceOther>>

\* The innermost executing fn throws: the exception leaves the wrapper
\* before `hasRun = true`.
OnceFnThrows ==
    /\ Len(onceStack) > 0
    /\ onceStack' = SubSeq(onceStack, 1, Len(onceStack) - 1)
    /\ UNCHANGED <<onceHasRun, onceResult, onceFnCalls, onceCalls,
                   onceReturns, onceOther>>

NextOnce ==
    \/ OnceCall
    \/ OnceFnReturns
    \/ OnceFnThrows

SpecOnce == Init /\ [][NextOnce]_vars

\* -------------------------------------------------------- retryOperation
\* The part of the state retryOperation works on.
RetryState == [i |-> rtI, pc |-> rtPc, outcomes |-> rtOutcomes,
               delays |-> rtDelays, result |-> rtResult]

\* `i === retries` in place of `i === retries - 1`.
RetryIsLastOffByOne(i, n) == i = n

\* The test of the catch block: was this the last attempt?
RetryIsLast(i, n) == i = n - 1

\* The catch block: rethrow after the last attempt, else start the delay.
RetryCatch(s, n) ==
    IF RetryIsLast(s.i, n)
    THEN [s EXCEPT !.pc = "rejected", !.result = Len(s.outcomes)]
    ELSE [s EXCEPT !.pc = "awaitDelay", !.delays = @ + 1]

\* The for loop from its condition `i < retries` up to the next await, the
\* operation called now behaving as b.
RetryAttempt(s, n, b) ==
    IF s.i < n
    THEN LET s1 == [s EXCEPT !.outcomes = Append(@, b)]
         IN  IF b = "throw"
             THEN RetryCatch(s1, n)
             ELSE [s1 EXCEPT !.pc = "awaitOp"]
    ELSE [s EXCEPT !.pc = "fulfilled", !.result = 0]

SetRetry(s) ==
    /\ rtI' = s.i
    /\ rtPc' = s.pc
    /\ rtOutcomes' = s.outcomes
    /\ rtDelays' = s.delays
    /\ rtResult' = s.result

\* retryOperation(operation, n, delay); b is what the first call of
\* operation does.
RetryCall(n, b) ==
    /\ rtPc = "idle"
    /\ rtRetries' = n
    /\ SetRetry(RetryAttempt([RetryState EXCEPT !.i = 0], n, b))
    /\ UNCHANGED retryOther

\* The promise of operation() settles and the function resumes: it returns
\* the value, or runs the catch block.
RetryOpSettles ==
    /\ rtPc = "awaitOp"
    /\ IF rtOutcomes[Len(rtOutcomes)] = "ok"
       THEN SetRetry([RetryState EXCEPT !.pc = "fulfilled",
                                       !.result = Len(rtOutcomes)])
       ELSE SetRetry(RetryCatch(RetryState, rtRetries))
    /\ UNCHANGED <<rtRetries, retryOther>>

\* The delay timer fires: i++ and the next turn of the loop; b is what the
\* call of operation made now does.
RetryDelayElapsed(b) ==
    /\ rtPc = "awaitDelay"
    /\ SetRetry(RetryAttempt([RetryState EXCEPT !.i = @ + 1], rtRetries, b))
    /\ UNCHANGED <<rtRetries, retryOther>>

NextRetry ==
    \/ \E n \in 0..MaxRetries, b \in Behaviours : RetryCall(n, b)
    \/ RetryOpSettles
    \/ \E b \in Behaviours : RetryDelayElapsed(b)

SpecRetry == Init /\ [][NextRetry]_vars

\* -------------------------------------------------------------- debounce
\* The debounced call without its clearTimeout.
ClearTimeoutOmitted(timers, id) == timers

\* clearTimeout(id): the timer with that id, if still pending, is cancelled.
ClearTimeout(timers, id) == {t \in timers : t.id # id}

\* A call of the debounced function with arguments a.  The timer it sets
\* gets the number of the call as its id.
DebouncedCall(a) ==
    /\ dbCalls < MaxDebounceCalls
    /\ dbCalls' = dbCalls + 1
    /\ dbLastArgs' = a
    /\ dbTimers' = ClearTimeout(dbTimers, dbTimeoutId)
                      \cup {[id |-> dbCalls + 1, args |-> a]}
    /\ dbTimeoutId' = dbCalls + 1
    /\ dbBursts' = IF \E t \in dbTimers : t.id = dbCalls
                   THEN dbBursts ELSE dbBursts + 1
    /\ UNCHANGED <<dbInvoked, debOther>>

\* `delay` has elapsed for the pending timer with this id: its callback
\* invokes func.
DebounceTimerFires(id) ==
    /\ \E t \in dbTimers :
          /\ t.id = id
          /\ dbTimers' = dbTimers \ {t}
          /\ dbInvoked' = Append(dbInvoked, [args |-> t.args, call |-> t.id])
    /\ UNCHANGED <<dbTimeoutId, dbCalls, dbLastArgs, dbBursts, debOther>>

NextDebounce ==
    \/ \E a \in DebounceArgs : DebouncedCall(a)
    \/ \E id \in 1..MaxDebounceCalls : DebounceTimerFires(id)

SpecDebounce == Init /\ [][NextDebounce]_vars

\* -------------------------------------------------------------- throttle
\* A call of the throttled function, from outside or from inside an
\* executing func: func is invoked unless inThrottle is set.
ThrottledCall ==
    /\ thCalls < MaxThrottleCalls
    /\ thCalls' = thCalls + 1
    /\ IF ~thInThrottle
       THEN /\ thInvoked' = Append(thInvoked, thCalls + 1)
            /\ thExpiredSince' = FALSE
            /\ thExecuting' = thExecuting + 1
       ELSE UNCHANGED <<thInvoked, thExpiredSince, thExecuting>>
    /\ UNCHANGED <<thInThrottle, thTimers, thrOther>>

\* The innermost executing func returns: inThrottle = true and the timer is
\* set.
ThrottleFuncReturns ==
    /\ thExecuting > 0
    /\ thExecuting' = thExecuting - 1
    /\ thInThrottle' = TRUE
    /\ thTimers' = thTimers + 1
    /\ UNCHANGED <<thCalls, thInvoked, thExpiredSince, thrOther>>

\* The innermost executing func throws: the exception leaves the wrapper
\* before `inThrottle = true`.
ThrottleFuncThrows ==
    /\ thExecuting > 0
    /\ thExecuting' = thExecuting - 1
    /\ UNCHANGED <<thInThrottle, thTimers, thCalls, thInvoked,
                   thExpiredSince, thrOther>>

\* `limit` has elapsed for a pending timer: inThrottle = false.
ThrottleTimerFires ==
    /\ thExecuting = 0
    /\ thTimers > 0
    /\ thTimers' = thTimers - 1
    /\ thInThrottle' = FALSE
    /\ thExpiredSince' = TRUE
    /\ UNCHANGED <<thCalls, thInvoked, thExecuting, thrOther>>

NextThrottle ==
    \/ ThrottledCall
    \/ ThrottleFuncReturns
    \/ ThrottleFuncThrows
    \/ ThrottleTimerFires

SpecThrottle == Init /\ [][NextThrottle]_vars

\* -------------------------------------------------------- CommandManager
\* manager.execute(command), with a command object not executed before;
\* commands are numbered in the order they are executed.  The call comes
\* from outside or from an executing undo() of a command.
CmExecute(c) ==
    /\ c = Len(cmCommands) + 1
    /\ cmCommands' = Append(cmCommands, c)
    /\ cmCurrent' = cmCurrent + 1
    /\ cmExecuted' = [cmExecuted EXCEPT ![c] = @ + 1]
    /\ UNCHANGED <<cmUndone, cmUndoing, cmUndoCalls, cmdOther>>

\* manager.undo() up to its call of the command's undo(); the call comes
\* from outside or from an executing undo() of a command.
CmUndo ==
    /\ IF cmCurrent >= 0
       THEN /\ cmUndoCalls < MaxUndoCalls
            /\ cmUndoCalls' = cmUndoCalls + 1
            /\ cmUndone' = [cmUndone EXCEPT ![cmCommands[cmCurrent + 1]] = @ + 1]
            /\ cmUndoing' = cmUndoing + 1
       ELSE UNCHANGED <<cmUndone, cmUndoing, cmUndoCalls>>
    /\ UNCHANGED <<cmCommands, cmCurrent, cmExecuted, cmdOther>>

\* The innermost executing undo() of a command returns: this.current--.
CmUndoReturns ==
    /\ cmUndoing > 0
    /\ cmUndoing' = cmUndoing - 1
    /\ cmCurrent' = cmCurrent - 1
    /\ UNCHANGED <<cmCommands, cmExecuted, cmUndone, cmUndoCalls, cmdOther>>

\* The innermost executing undo() of a command throws: the exception leaves
\* manager.undo() before `this.current--`.
CmUndoThrows ==
    /\ cmUndoing > 0
    /\ cmUndoing' = cmUndoing - 1
    /\ UNCHANGED <<cmCommands, cmCurrent, cmExecuted, cmUndone, cmUndoCalls,
                   cmdOther>>

NextCommands ==
    \/ \E c \in Commands : CmExecute(c)
    \/ CmUndo
    \/ CmUndoReturns
    \/ CmUndoThrows

SpecCommands == Init /\ [][NextCommands]_vars

\* ------------------------------------------------------------ ObjectPool
\* Objects are told apart by identity: createNew() makes object number
\* opCreated + 1; object 0 is an object of the caller that never came from
\* the pool.
PoolObjects == 0..MaxPoolObjects

\* release without the test of inUse.delete(obj): the object is always
\* pushed.
ReleaseUnchecked(pool, inUse, obj) ==
    [pool |-> Append(pool, obj), inUse |-> inUse \ {obj}]

\* release(obj): pool and inUse after the call.
Release(pool, inUse, obj) ==
    IF obj \in inUse
    THEN [pool |-> Append(pool, obj), inUse |-> inUse \ {obj}]
    ELSE [pool |-> pool, inUse |-> inUse]

\* pool.acquire()
OpAcquire ==
    /\ Len(opPool) > 0 \/ opCreated < MaxPoolObjects
    /\ LET obj == IF Len(opPool) > 0 THEN opPool[Len(opPool)]
                  ELSE opCreated + 1
       IN  /\ opInUse' = opInUse \cup {obj}
           /\ opReturned' = obj
    /\ IF Len(opPool) > 0
       THEN /\ opPool' = SubSeq(opPool, 1, Len(opPool) - 1)
            /\ UNCHANGED opCreated
       ELSE /\ opCreated' = opCreated + 1
            /\ UNCHANGED opPool
    /\ UNCHANGED objOther

\* pool.release(obj), for an object the pool made or the caller's object 0.
OpRelease(obj) ==
    /\ obj <= opCreated
    /\ opPool' = Release(opPool, opInUse, obj).pool
    /\ opInUse' = Release(opPool, opInUse, obj).inUse
    /\ UNCHANGED <<opCreated, opReturned, objOther>>

NextObjects ==
    \/ OpAcquire
    \/ \E obj \in PoolObjects : OpRelease(obj)

SpecObjects == Init /\ [][NextObjects]_vars

\* -------------------------------------------------------- ConnectionPool
\* Ids are numbered in the order of their first getConnection call. The
\* k-th connection object made for an id is written k.
Ids == 1..NumIds

\* static #maxSize
MaxSize == 10

\* #pool.has(id)
CpHas(id) == cpPool[id] # 0

\* #pool.size
CpSize == Cardinality({id \in Ids : CpHas(id)})

\* getConnection(id) up to its return, its throw or its await: an id that is
\* in the pool is returned at once; a new id is refused when the pool is
\* full; otherwise #createConnection() is called and the call suspends.
GetConnection(id) ==
    /\ id <= cpRequested + 1
    /\ cpRequested' = IF id > cpRequested THEN id ELSE cpRequested
    /\ IF CpHas(id)
       THEN /\ cpReturned' = [cpReturned EXCEPT ![id] = @ \cup {cpPool[id]}]
            /\ cpLastCall' = [id |-> id, outcome |-> "returned"]
            /\ UNCHANGED <<cpPool, cpCreatedFor, cpInFlight>>
       ELSE IF CpSize >= MaxSize
       THEN /\ cpLastCall' = [id |-> id, outcome |-> "Pool is full"]
            /\ UNCHANGED <<cpPool, cpCreatedFor, cpInFlight, cpReturned>>
       ELSE /\ Len(cpInFlight) < MaxInFlight
            /\ cpCreatedFor' = [cpCreatedFor EXCEPT ![id] = @ + 1]
            /\ cpInFlight' = Append(cpInFlight,
                                    [id |-> id, conn |-> cpCreatedFor[id] + 1])
            /\ cpLastCall' = [id |-> id, outcome |-> "awaiting"]
            /\ UNCHANGED <<cpPool, cpReturned>>
    /\ UNCHANGED connOther

\* The continuation of the oldest suspended call: #pool.set(id, connection)
\* and return #pool.get(id).
ConnectionCreated ==
    /\ Len(cpInFlight) > 0
    /\ LET c == Head(cpInFlight)
       IN  /\ cpPool' = [cpPool EXCEPT ![c.id] = c.conn]
           /\ cpReturned' = [cpReturned EXCEPT ![c.id] = @ \cup {c.conn}]
    /\ cpInFlight' = Tail(cpInFlight)
    /\ UNCHANGED <<cpCreatedFor, cpRequested, cpLastCall, connOther>>

NextConnections ==
    \/ \E id \in Ids : GetConnection(id)
    \/ ConnectionCreated

SpecConnections == Init /\ [][NextConnections]_vars

\* ================================================================ claims
InQueue(t) == owner[t] = "queue"
InPool(t) == owner[t] = "pool"
Completed(t) == op[t] \in {"fulfilled", "rejected", "threw"}
Settled(t) == handle[t].st # "pending"

IsPrefix(a, b) == Len(a) <= Len(b) /\ \A i \in 1..Len(a) : a[i] = b[i]

\* enqueue calls and PromiseQueue starts, in order.
QueueSubmitted == SelectSeq(submitOrder, InQueue)
QueueStarted == SelectSeq(startOrder, InQueue)
\* add calls and PromisePool starts, in order.
PoolSubmitted == SelectSeq(submitOrder, InPool)
PoolStarted == SelectSeq(startOrder, InPool)

\* Operations of the pool that were started and have not finished.
PoolInFlight == {t \in Tasks : InPool(t) /\ op[t] \in {"pending", "executing"}}

Position(seq, t) == CHOOSE i \in 1..Len(seq) : seq[i] = t

\* C1: for a pool with maxConcurrent >= 1, neither the counter `running`
\* nor the number of operations started and not yet finished ever exceeds
\* maxConcurrent.
C1_RunningBounded ==
    (constructed /\ maxConcurrent >= 1) =>
        /\ running <= maxConcurrent
        /\ Cardinality(PoolInFlight) <= maxConcurrent

\* C2: the promise returned by PromiseQueue.enqueue is settled by exactly
\* one resolve/reject call, not before its own operation has completed, and
\* with the outcome of its own operation: fulfilled if the operation
\* succeeded, rejected if it threw or rejected.
C2_SettledOnceWithOwnOutcome ==
    \A t \in Tasks : InQueue(t) =>
        /\ settles[t] <= 1
        /\ (settles[t] = 1) = Settled(t)
        /\ Settled(t) =>
              /\ Completed(t)
              /\ handle[t].by = t
              /\ handle[t].st = Outcome(behav[t])
        /\ (Completed(t) /\ <<"processQueue", t>> \notin Range(microtasks))
              => Settled(t)

\* C2 witness: one enqueued task fulfilled, one rejected after a rejection
\* and one rejected after a synchronous throw.
C2_Witness ==
    \E a, b, c \in Tasks :
        /\ InQueue(a) /\ InQueue(b) /\ InQueue(c)
        /\ behav[a] = "ok" /\ handle[a].st = "fulfilled"
        /\ behav[b] = "reject" /\ handle[b].st = "rejected"
        /\ behav[c] = "throw" /\ handle[c].st = "rejected"

\* The components C3 speaks of: PromiseQueue, and PromisePool with
\* maxConcurrent = 1.
OneAtATime(t) == InQueue(t) \/ (InPool(t) /\ maxConcurrent = 1)

\* C3: with PromiseQueue, and with PromisePool of maxConcurrent = 1, only
\* the promise of a task whose own operation failed rejects, and every
\* submitted task is eventually started, and fulfilled if its own operation
\* succeeds, whatever the tasks before it did.
C3_FailureIsolated ==
    /\ [](\A t \in Tasks : (OneAtATime(t) /\ handle[t].st = "rejected")
                              => (behav[t] # "ok" /\ handle[t].by = t))
    /\ \A t \in Tasks :
          [] (OneAtATime(t)
                 => <>(/\ invocations[t] > 0
                       /\ behav[t] = "ok"
                            => handle[t] = [st |-> "fulfilled", by |-> t]))

\* C3 witness: in a pool of maxConcurrent = 1 the add call of a rejected
\* operation has finished, released the slot and woken the parked caller of
\* a succeeding operation.
C3_Witness ==
    \E a, b \in Tasks :
        /\ constructed /\ maxConcurrent = 1
        /\ InPool(a) /\ behav[a] = "reject" /\ handle[a].st = "rejected"
        /\ InPool(b) /\ behav[b] = "ok"
        /\ running = 0
        /\ <<"resume", b>> \in Range(microtasks)

\* C4: every event passed to addEvent is eventually handled, also when
\* handleEvent failed for an earlier event.
C4_EveryEventHandled ==
    \A e \in Events :
        [] (evBehav[e] # "none" => <>(e \in Range(evHandled)))

\* C5: no PromisePool exists whose maxConcurrent is below 1.
C5_LimitAtLeastOne == constructed => maxConcurrent >= 1

\* C6: every submitted task's operation is eventually started and its
\* promise eventually settled.
C6_EveryTaskSettles ==
    \A t \in Tasks :
        [] (owner[t] # "none" => <>(invocations[t] > 0 /\ Settled(t)))

\* C7: PromiseQueue starts operations in the order of the enqueue calls,
\* and its queue holds exactly the enqueued tasks that were not started yet,
\* none of them running or settled.
C7_QueueFifo ==
    /\ IsPrefix(QueueStarted, QueueSubmitted)
    /\ pqQueue = SubSeq(QueueSubmitted, Len(QueueStarted) + 1,
                        Len(QueueSubmitted))
    /\ \A i \in 1..Len(pqQueue) :
          op[pqQueue[i]] = "idle" /\ ~Settled(pqQueue[i])

\* C7 witness: two tasks were started, the second while a third waited in
\* the queue.
C7_Witness ==
    /\ Len(QueueStarted) = 2
    /\ Len(pqQueue) = 1
    /\ op[QueueStarted[2]] = "pending"

\* C8: in a pool with maxConcurrent = 1 the operations start in the order
\* of the add calls.
C8_PoolFifo ==
    (constructed /\ maxConcurrent = 1) => IsPrefix(PoolStarted, PoolSubmitted)

\* C9: as long as none of the operations added since the pool was idle has
\* completed, exactly the first maxConcurrent of them have been invoked and
\* the others are parked in the wait queue.
C9_FirstMaxStartOthersWait ==
    (/\ constructed
     /\ \A i \in 1..Len(sinceIdle) : op[sinceIdle[i]] \in {"idle", "pending"})
    => \A i \in 1..Len(sinceIdle) :
          /\ (invocations[sinceIdle[i]] = 1) = (i <= maxConcurrent)
          /\ (i > maxConcurrent) => (sinceIdle[i] \in Range(poolQueue))

\* C9 witness: maxConcurrent = 2, three operations added, none completed:
\* two are running and the third is parked.
C9_Witness ==
    /\ constructed /\ maxConcurrent = 2
    /\ Len(sinceIdle) = 3
    /\ \A i \in 1..Len(sinceIdle) : op[sinceIdle[i]] \in {"idle", "pending"}
    /\ Len(poolQueue) = 1

\* C10: no operation is invoked more than once per enqueue / add call.
C10_InvokedAtMostOnce ==
    /\ \A t \in Tasks : invocations[t] <= 1
    /\ \A i, j \in 1..Len(startOrder) :
          startOrder[i] = startOrder[j] => i = j

\* C10 witness: a queue task whose operation rejected has been settled, and
\* in a pool of maxConcurrent = 1 a task that failed as the second one started
\* has been settled; each was invoked once.
C10_Witness ==
    \E a, b \in Tasks :
        /\ InQueue(a) /\ behav[a] = "reject" /\ Settled(a)
        /\ constructed /\ maxConcurrent = 1
        /\ InPool(b) /\ behav[b] # "ok" /\ Settled(b)
        /\ Len(PoolStarted) = 2 /\ PoolStarted[2] = b
        /\ behav[PoolStarted[1]] = "ok"
        /\ invocations[a] = 1 /\ invocations[b] = 1

\* Number of add calls whose resolver was called and that have not resumed.
Resumes(m) == Cardinality({i \in 1..Len(m) : m[i][1] = "resume"})

\* C12: an add call is admitted only into a slot that is not on its way to
\* a woken caller: it starts its operation only if `running` plus the
\* number of woken callers that have not resumed is below maxConcurrent.
C12_HandOffAtomic ==
    [][\A t \in Tasks :
          (owner[t] = "none" /\ owner'[t] = "pool" /\ invocations'[t] = 1)
             => running + Resumes(microtasks) < maxConcurrent]_vars

\* processQueue loops of PromiseQueue that are suspended at their await.
QueueLoops == {t \in Tasks : InQueue(t) /\
                  (op[t] = "pending" \/
                   <<"processQueue", t>> \in Range(microtasks))}

\* C13: PromiseQueue has at most one processQueue loop and at most one
\* operation in flight, and an operation is invoked only after the promise
\* of the operation before it was settled.
C13_OneAtATime ==
    /\ Cardinality(QueueLoops) <= 1
    /\ Cardinality({t \in Tasks : InQueue(t) /\ op[t] = "pending"}) <= 1
    /\ \A i \in 1..(Len(QueueStarted) - 1) :
          Completed(QueueStarted[i]) /\ Settled(QueueStarted[i])

\* C13 witness: the third enqueued operation is in flight, the two before
\* it are settled, one of them rejected.
C13_Witness ==
    /\ Len(QueueStarted) = 3
    /\ op[QueueStarted[3]] = "pending"
    /\ behav[QueueStarted[1]] = "reject"
    /\ handle[QueueStarted[1]].st = "rejected"
    /\ handle[QueueStarted[2]].st = "fulfilled"

\* C14: processing = false implies an empty queue; when the microtask queue
\* has drained, processing is true exactly when a processQueue loop waits
\* for an operation in flight, so a non-empty queue always has such a loop;
\* and an operation is started only when none was in flight.
C14_QueueNeverStranded ==
    /\ [](/\ ~processing => pqQueue = <<>>
          /\ microtasks = <<>> =>
                /\ processing = (\E t \in Tasks : InQueue(t) /\ op[t] = "pending")
                /\ pqQueue # <<>> => processing)
    /\ [][\A t \in Tasks :
             (owner'[t] = "queue" /\ invocations'[t] > invocations[t])
                => ~(\E u \in Tasks : InQueue(u) /\ op[u] = "pending")]_vars

\* C14 witness: control is back at the event loop with two tasks queued
\* behind an operation in flight.
C14_Witness ==
    /\ microtasks = <<>>
    /\ Len(pqQueue) = 2
    /\ processing
    /\ \E t \in Tasks : InQueue(t) /\ op[t] = "pending"

\* Parked callers whose resolver is called in the step.
WokenInStep == {w \in Tasks : w \in Range(poolQueue) /\ w \notin Range(poolQueue')}

\* C15: an add call that finishes decrements `running` once and wakes the
\* head of the wait queue if there is one and nobody otherwise; a parked
\* caller is woken only by a finishing add call, and at most once.
C15_FinishWakesOne ==
    /\ [](\A t \in Tasks :
            /\ Cardinality({i \in 1..Len(poolQueue) : poolQueue[i] = t}) <= 1
            /\ Cardinality({i \in 1..Len(microtasks) :
                              microtasks[i] = <<"resume", t>>}) <= 1
            /\ (invocations[t] > 0 \/ <<"resume", t>> \in Range(microtasks))
                  => t \notin Range(poolQueue))
    /\ [][/\ WokenInStep # {} =>
                \E t \in Tasks : owner'[t] = "pool" /\ settles'[t] = settles[t] + 1
          /\ \A t \in Tasks :
                (owner'[t] = "pool" /\ settles'[t] = settles[t] + 1) =>
                   /\ running' = running - 1
                                 + (IF invocations'[t] > invocations[t]
                                    THEN 1 ELSE 0)
                   /\ IF poolQueue # <<>>
                      THEN /\ WokenInStep = {Head(poolQueue)}
                           /\ poolQueue' = Tail(poolQueue)
                           /\ microtasks'[Len(microtasks')]
                                 = <<"resume", Head(poolQueue)>>
                      ELSE /\ poolQueue' = <<>>
                           /\ Resumes(microtasks') <= Resumes(microtasks)]_vars

\* C15 witness: an add call has finished and woken the first of two parked
\* callers; the second is still parked.
C15_Witness ==
    \E a, b \in Tasks :
        /\ InPool(a) /\ Settled(a)
        /\ <<"resume", b>> \in Range(microtasks)
        /\ Len(poolQueue) = 1

\* Every handleEvent call so far succeeds.
AllHandlersSucceed == \A e \in Events : evBehav[e] \in {"none", "ok"}

\* C16: while handlers succeed and processQueue is called by addEvent
\* only, EventQueue has at most one processQueue loop and one handleEvent
\* call in flight, handles the events in the order
\* they were added, each once, keeps the others queued in order, and has
\* processing = false exactly when no loop is left, which is the case once
\* the queue has drained.
C16_EventsInOrder ==
    (AllHandlersSucceed /\ ~evDirect) =>
        /\ Cardinality({e \in Events : evOp[e] \in {"executing", "pending"}
                                        \/ e \in Range(evMicrotasks)}) <= 1
        /\ Len(evMicrotasks) <= 1
        /\ Len(evExecuting) <= 1
        /\ \A i \in 1..Len(evHandled) : evHandled[i] = i
        /\ \A i \in 1..(Len(evHandled) - 1) : evOp[evHandled[i]] = "fulfilled"
        /\ Len(evQueue) = NextEvent - 1 - Len(evHandled)
        /\ \A i \in 1..Len(evQueue) : evQueue[i] = Len(evHandled) + i
        /\ evProcessing = (evLoop \in {"running", "awaiting"})
        /\ evProcessing = (\E e \in Events : evOp[e] \in {"executing", "pending"}
                                              \/ e \in Range(evMicrotasks))

\* C16 witness: events were added while a handler ran, all were handled in
\* order and the queue has drained.
C16_Witness ==
    /\ AllHandlersSucceed
    /\ ~evDirect
    /\ Len(evHandled) >= 3
    /\ evQueue = <<>>
    /\ ~evProcessing
    /\ \A i \in 1..Len(evHandled) : evOp[evHandled[i]] = "fulfilled"

\* C11: fn is invoked at most once, and every call of the wrapper that
\* returns, returns the value of that one invocation.
C11_FnRunsOnce ==
    /\ onceFnCalls <= 1
    /\ \A i \in 1..Len(onceReturns) : onceReturns[i] = 1

\* C17: with retries >= 1, operation is called at most `retries` times and
\* never again after a success; the call fulfils with the value of the first
\* successful attempt; it rejects only after `retries` failed attempts, with
\* the error of the last one, and a delay was waited after every failed
\* attempt but the last.
C17_RetryBounded ==
    rtRetries >= 1 =>
        /\ Len(rtOutcomes) <= rtRetries
        /\ Len(rtOutcomes) = rtI + 1
        /\ \A k \in 1..(Len(rtOutcomes) - 1) : rtOutcomes[k] # "ok"
        /\ rtPc = "fulfilled" =>
              /\ rtOutcomes[Len(rtOutcomes)] = "ok"
              /\ rtResult = Len(rtOutcomes)
              /\ rtDelays = Len(rtOutcomes) - 1
        /\ rtPc = "rejected" =>
              /\ Len(rtOutcomes) = rtRetries
              /\ rtOutcomes[rtRetries] # "ok"
              /\ rtResult = rtRetries
              /\ rtDelays = rtRetries - 1
        /\ rtPc = "awaitOp" => rtDelays = Len(rtOutcomes) - 1
        /\ rtPc = "awaitDelay" =>
              rtDelays = Len(rtOutcomes) /\ Len(rtOutcomes) < rtRetries

\* C17 witness: three attempts failed, by rejection and by a throw, and the
\* call rejected without a third delay.
C17_Witness ==
    /\ rtRetries = 3
    /\ rtPc = "rejected"
    /\ rtOutcomes[1] = "reject" /\ rtOutcomes[2] = "throw"
    /\ rtDelays = 2

\* C18: func is invoked only by the timer of the most recent call, with
\* that call's arguments; at most one timer is pending, it is the one of
\* the most recent call, and every burst of calls gives one invocation.
C18_DebounceLastCallOnly ==
    /\ [](/\ Cardinality(dbTimers) <= 1
          /\ \A t \in dbTimers : t.id = dbCalls /\ t.args = dbLastArgs
          /\ Len(dbInvoked) + Cardinality(dbTimers) = dbBursts)
    /\ [][Len(dbInvoked') > Len(dbInvoked) =>
             dbInvoked'[Len(dbInvoked')]
                = [args |-> dbLastArgs, call |-> dbCalls]]_vars

\* C18 witness: two bursts of two calls each gave two invocations, for the
\* second and the fourth call.
C18_Witness ==
    /\ Len(dbInvoked) = 2
    /\ dbInvoked[1].call = 2
    /\ dbInvoked[2].call = 4
    /\ dbInvoked[1].args # dbInvoked[2].args
    /\ dbTimers = {}

\* C19: the first call invokes func; a call made while a timer is pending
\* is dropped; between two invocations of func a timer fires; at most one
\* timer is pending.
C19_ThrottleOnePerLimit ==
    /\ [](/\ thTimers <= 1
          /\ thCalls >= 1 => (Len(thInvoked) >= 1 /\ thInvoked[1] = 1))
    /\ [][thCalls' = thCalls + 1 =>
             /\ thTimers > 0 => thInvoked' = thInvoked
             /\ Len(thInvoked') > Len(thInvoked) =>
                   (Len(thInvoked) = 0 \/ thExpiredSince)]_vars

\* Executed commands whose undo() was never called.
LiveCommands == {c \in Commands : cmExecuted[c] > 0 /\ cmUndone[c] = 0}

\* C20: undo() is only ever called on the most recently executed command
\* that was not undone yet, no command is undone more often than it was
\* executed, and -1 <= current < commands.length.
C20_UndoMostRecent ==
    /\ [](/\ \A c \in Commands : cmUndone[c] <= cmExecuted[c]
          /\ 0 - 1 <= cmCurrent
          /\ cmCurrent < Len(cmCommands))
    /\ [][\A c \in Commands : cmUndone'[c] > cmUndone[c] =>
             (c \in LiveCommands /\ \A d \in LiveCommands : d <= c)]_vars

\* C21: no object is in pool and in inUse at once, no object is twice in
\* pool, acquire returns an object that was not in use, and release of an
\* object that is not in use changes neither pool nor inUse.
C21_PoolAndInUseDisjoint ==
    /\ [](/\ Range(opPool) \cap opInUse = {}
          /\ \A i, j \in 1..Len(opPool) : opPool[i] = opPool[j] => i = j)
    /\ [][/\ (Len(opPool') < Len(opPool) \/ opCreated' > opCreated)
                => (opReturned' \notin opInUse /\ opReturned' \in opInUse')
          /\ (Len(opPool') > Len(opPool))
                => \E obj \in opInUse : /\ opPool' = Append(opPool, obj)
                                        /\ opInUse' = opInUse \ {obj}]_vars

\* C21 witness: after acquires and releases the pool holds two objects, one
\* of them the object the last acquire returned, and a third is in use.
C21_Witness ==
    /\ Len(opPool) = 2
    /\ Cardinality(opInUse) = 1
    /\ opReturned \in Range(opPool)

\* C22: the pool never holds more than maxSize connections, and a call
\* that ends with 'Pool is full' was made for a new id at a full pool and
\* leaves the pool unchanged.
C22_PoolNeverExceedsMaxSize ==
    /\ [](CpSize <= MaxSize)
    /\ [][(cpLastCall' # cpLastCall /\ cpLastCall'.outcome = "Pool is full")
            => /\ cpPool' = cpPool
               /\ ~CpHas(cpLastCall'.id)
               /\ CpSize >= MaxSize]_vars

\* C23: for every id at most one connection is created, and all
\* getConnection(id) calls return the same connection object.
C23_OneConnectionPerId ==
    \A id \in Ids : /\ cpCreatedFor[id] <= 1
                    /\ Cardinality(cpReturned[id]) <= 1

====
